---- MODULE Spec2Model ----
(***************************************************************************)
(* Model of PineconeRAG.search (src/llm_search.py): the retrieval ranking  *)
(* pipeline.  One search runs as a sequence of steps                       *)
(*   filter -> embed -> namespaces -> retrieve (one step per partition)    *)
(*          -> rerank -> select -> returned | raised                       *)
(*                                                                         *)
(* Text is a sequence of characters.  A character is a one-element string; *)
(* a Hangul syllable is written as its romanisation in square brackets     *)
(* ("[cheo]" is U+CC98), so that it cannot be confused with ASCII letters. *)
(* Scores are fixed-point numbers in units of 0.05: a vector similarity of *)
(* 0.5 is 10, the word bonus 0.05 is 1 and the phrase bonus 0.3 is 6.      *)
(***************************************************************************)
EXTENDS Integers, Sequences, FiniteSets, TLC

VARIABLES
    pc,             \* position of the search in its body
    args,           \* the arguments search was called with (never assigned)
    stored,         \* the vector index: namespace -> documents stored in it
    filters,        \* local `filters` (the dict handed to the store)
    search_query,   \* local `search_query`
    embedding,      \* the Embedding Client's call: "not_called", "answered", "raised"
    query_vector,   \* local `query_vector`
    fetch_k,        \* local `fetch_k`
    namespaces,     \* local `namespaces` after discovery
    ns_i,           \* number of partitions of `namespaces` already handled
    calls,          \* the search_params of every index.query call so far
    handled,        \* per handled partition: how its try block ended
    raw_results,    \* local `raw_results` (the candidate pool)
    final_results,  \* local `final_results`; the return value once pc = "returned"
    error,          \* the exception that left search, "" if none
    main_pc,        \* position of main's script run: "outside" when search was not
                    \* called by main, "idle" between two script runs
    trigger,        \* what started the latest script run: "reset", "example",
                    \* "chat" or "none"
    initialized,    \* st.session_state.initialized
    messages,       \* st.session_state.messages
    pending_query,  \* st.session_state.pending_query
    results,        \* local `results` of main: what search returned to this script run
    context,        \* whether this script run has called build_context
    completion,     \* the completion call of this script run: "not_called",
                    \* "streaming", "ended", "raised"
    completions,    \* how often this script run has called chat.completions.create
    response_text,  \* local `response_text` of generate_response_streaming
    placeholder     \* what the placeholder of the answer shows

searchVars == <<pc, args, stored, filters, search_query, embedding, query_vector,
                fetch_k, namespaces, ns_i, calls, handled, raw_results, final_results,
                error>>

mainVars == <<main_pc, trigger, initialized, messages, pending_query, results, context,
              completion, completions, response_text, placeholder>>

vars == <<searchVars, mainVars>>

----------------------------------------------------------------------------
(* Bounds of the model *)

\* largest number of documents one namespace stores (so one partition returns)
MaxStored == 2

\* largest top_k a search of the general specification is called with
MaxTopK == 3

\* largest number of tokens the queries of the Keyword Extractor are built from
MaxTokens == 3

----------------------------------------------------------------------------
(* Characters *)

Digit == {"0", "1", "2", "3", "4", "5", "6", "7", "8", "9"}

DigitVal(c) ==
    CASE c = "0" -> 0 [] c = "1" -> 1 [] c = "2" -> 2 [] c = "3" -> 3
      [] c = "4" -> 4 [] c = "5" -> 5 [] c = "6" -> 6 [] c = "7" -> 7
      [] c = "8" -> 8 [] c = "9" -> 9

\* the syllables of the range U+AC00..U+D7A3 that occur in the model's texts
Hangul ==
    {"[eun]", "[neun]", "[i]", "[ga]", "[eul]", "[reul]", "[ui]", "[e]", "[seo]",
     "[ro]", "[eu]", "[wa]", "[gwa]", "[do]", "[man]", "[kka]", "[ji]", "[bu]",
     "[teo]", "[ma]", "[da]", "[cheo]", "[reom]", "[gat]", "[eo]", "[tteon]",
     "[mu]", "[eot]", "[tteoh]", "[ge]", "[wae]", "[eon]", "[je]", "[di]",
     "[nu]", "[mwo]", "[al]", "[ryeo]", "[jwo]", "[ju]", "[se]", "[yo]",
     "[seol]", "[myeong]", "[hae]", "[ya]", "[mwon]", "[ha]", "[doe]", "[iss]",
     "[eops]", "[hal]", "[han]", "[doen]", "[in]", "[geu]", "[jeo]", "[geot]",
     "[su]", "[deung]", "[mit]", "[tto]", "[ri]", "[go]", "[dae]", "[gwan]",
     "[seun]", "[gye]", "[gi]", "[jun]", "[nyeon]", "[gu]", "[jo]", "[mul]",
     "[gae]", "[seon]", "[jeok]", "[yong]", "[geom]", "[to]", "[gyeol]", "[pyo]"}

AsciiLetter == {"a", "b", "k", "m", "x", "A", "B", "K", "M", "X"}

\* what \s matches
Whitespace == {" ", "\t", "\n"}

\* what \w matches on str: letters and digits of any script, and the underscore
WordChar == Digit \cup Hangul \cup AsciiLetter \cup {"_"}

----------------------------------------------------------------------------
(* Strings *)

Min(a, b) == IF a <= b THEN a ELSE b

Max(a, b) == IF a >= b THEN a ELSE b

\* text[:n]
Truncate(text, n) == SubSeq(text, 1, Min(Len(text), n))

\* `needle in text`
Contains(text, needle) ==
    \E i \in 0..(Len(text) - Len(needle)) :
        SubSeq(text, i + 1, i + Len(needle)) = needle

\* re.sub of one character class by a space: keep(c) tells which characters stay
MapChars(text, keep(_)) ==
    [i \in 1..Len(text) |-> IF keep(text[i]) THEN text[i] ELSE " "]

\* str.split(): the maximal runs of non-whitespace characters, in order
RECURSIVE SplitFrom(_, _, _)
SplitFrom(text, i, cur) ==
    IF i > Len(text)
    THEN IF cur = <<>> THEN <<>> ELSE <<cur>>
    ELSE IF text[i] \in Whitespace
         THEN IF cur = <<>>
              THEN SplitFrom(text, i + 1, <<>>)
              ELSE <<cur>> \o SplitFrom(text, i + 1, <<>>)
         ELSE SplitFrom(text, i + 1, Append(cur, text[i]))

Split(text) == SplitFrom(text, 1, <<>>)

\* ' '.join(words)
RECURSIVE Join(_)
Join(words) ==
    IF words = <<>> THEN <<>>
    ELSE IF Len(words) = 1 THEN words[1]
    ELSE words[1] \o <<" ">> \o Join(Tail(words))

\* dict.get(key, default)
Get(d, key, default) == IF key \in DOMAIN d THEN d[key] ELSE default

----------------------------------------------------------------------------
(* Keyword Extractor: extract_search_keywords *)

stopwords ==
    {<<"[eun]">>, <<"[neun]">>, <<"[i]">>, <<"[ga]">>, <<"[eul]">>, <<"[reul]">>,
     <<"[ui]">>, <<"[e]">>, <<"[e]", "[seo]">>, <<"[ro]">>, <<"[eu]", "[ro]">>,
     <<"[wa]">>, <<"[gwa]">>, <<"[do]">>, <<"[man]">>, <<"[kka]", "[ji]">>,
     <<"[bu]", "[teo]">>, <<"[ma]", "[da]">>, <<"[cheo]", "[reom]">>,
     <<"[gat]", "[i]">>,
     <<"[eo]", "[tteon]">>, <<"[mu]", "[eot]">>, <<"[eo]", "[tteoh]", "[ge]">>,
     <<"[wae]">>, <<"[eon]", "[je]">>, <<"[eo]", "[di]">>, <<"[nu]", "[ga]">>,
     <<"[mwo]">>,
     <<"[al]", "[ryeo]", "[jwo]">>, <<"[al]", "[ryeo]", "[ju]", "[se]", "[yo]">>,
     <<"[seol]", "[myeong]", "[hae]", "[jwo]">>,
     <<"[seol]", "[myeong]", "[hae]", "[ju]", "[se]", "[yo]">>,
     <<"[mwo]", "[ya]">>, <<"[mwon]", "[ga]", "[yo]">>,
     <<"[ha]", "[neun]">>, <<"[doe]", "[neun]">>, <<"[iss]", "[neun]">>,
     <<"[eops]", "[neun]">>, <<"[hae]", "[ya]">>, <<"[hal]">>, <<"[han]">>,
     <<"[doen]">>, <<"[in]">>,
     <<"[geu]">>, <<"[jeo]">>, <<"[geot]">>, <<"[su]">>, <<"[deung]">>,
     <<"[mit]">>, <<"[tto]", "[neun]">>, <<"[geu]", "[ri]", "[go]">>,
     <<"[dae]", "[hae]">>, <<"[gwan]", "[hae]">>, <<"[gwan]", "[han]">>,
     <<"[dae]", "[han]">>, <<"[mu]", "[seun]">>}

\* the characters the first re.sub keeps: 0-9A-Za-z, Hangul, \s and - . / ~ -> ( ) %
KeptSymbol == {"-", ".", "/", "~", "[arrow]", "(", ")", "%"}

KeptByExtractor(c) ==
    c \in Digit \cup AsciiLetter \cup Hangul \cup Whitespace \cup KeptSymbol

\* re.sub(r"\s{2,}", " ", text): every run of two or more whitespace characters
\* becomes one space; a single whitespace character stays as it is
RECURSIVE CollapseFrom(_, _)
CollapseFrom(text, i) ==
    IF i > Len(text) THEN <<>>
    ELSE IF text[i] \notin Whitespace
         THEN <<text[i]>> \o CollapseFrom(text, i + 1)
         ELSE LET run == CHOOSE j \in i..Len(text) :
                            /\ \A k \in i..j : text[k] \in Whitespace
                            /\ (j = Len(text) \/ text[j + 1] \notin Whitespace)
              IN  (IF run > i THEN <<" ">> ELSE <<text[i]>>)
                      \o CollapseFrom(text, run + 1)

Collapse(text) == CollapseFrom(text, 1)

\* str.strip()
Strip(text) ==
    LET inner == {i \in 1..Len(text) : text[i] \notin Whitespace}
    IN  IF inner = {} THEN <<>>
        ELSE LET lo == CHOOSE i \in inner : \A j \in inner : i <= j
                 hi == CHOOSE i \in inner : \A j \in inner : i >= j
             IN  SubSeq(text, lo, hi)

\* IsKeyword without the test of the token's length
IsKeywordAnyLength(t) == t \notin stopwords

IsKeyword(t) == t \notin stopwords /\ Len(t) > 1

extract_search_keywords(query) ==
    LET cleaned  == Strip(Collapse(MapChars(query, KeptByExtractor)))
        tokens   == Split(cleaned)
        keywords == SelectSeq(tokens, IsKeyword)
    IN  IF Len(keywords) < 2 THEN query ELSE Join(keywords)

----------------------------------------------------------------------------
(* Constraint Extractor: the two re.search calls of search *)

\* re.search(r'(20[0-3]\d)', query): the start of every match
YearMatchAt(query, i) ==
    /\ i + 3 <= Len(query)
    /\ query[i] = "2"
    /\ query[i + 1] = "0"
    /\ query[i + 2] \in {"0", "1", "2", "3"}
    /\ query[i + 3] \in Digit

YearStarts(query) == {i \in 1..Len(query) : YearMatchAt(query, i)}

\* re.search returns the leftmost match
FirstOf(S) == CHOOSE i \in S : \A j \in S : i <= j

LastOf(S) == CHOOSE i \in S : \A j \in S : i >= j

\* int(year_match.group(1))
YearValue(query, i) ==
    2000 + 10 * DigitVal(query[i + 2]) + DigitVal(query[i + 3])

\* re.search(r'([Hangul]+cheo)', query): the positions j at which a match that
\* starts at i can end: query[i..j-1] is a non-empty run of Hangul, query[j] the suffix
DeptEnds(query, i) ==
    {j \in (i + 1)..Len(query) :
        /\ \A k \in i..(j - 1) : query[k] \in Hangul
        /\ query[j] = "[cheo]"}

DeptStarts(query) == {i \in 1..Len(query) : DeptEnds(query, i) # {}}

\* the leftmost match; + is greedy, so it ends at the last possible position
DeptValue(query) ==
    LET i == FirstOf(DeptStarts(query))
    IN  SubSeq(query, i, LastOf(DeptEnds(query, i)))

\* d with d[key] = value (dict item assignment)
Put(d, key, value) ==
    [k \in DOMAIN d \cup {key} |-> IF k = key THEN value ELSE d[k]]

EmptyDict == [k \in {} |-> 0]

\* WithYear without the test for a year the caller gave
WithYearOverwrite(f, query) ==
    IF YearStarts(query) # {}
    THEN Put(f, "year", YearValue(query, FirstOf(YearStarts(query))))
    ELSE f

\* lines 459-475: `filters` after the year and the department step
WithYear(f, query) ==
    IF YearStarts(query) # {} /\ "year" \notin DOMAIN f
    THEN Put(f, "year", YearValue(query, FirstOf(YearStarts(query))))
    ELSE f

WithDept(f, query) ==
    IF "dept" \notin DOMAIN f
    THEN IF DeptStarts(query) # {} THEN Put(f, "dept", DeptValue(query)) ELSE f
    ELSE f

AutoFilter(f, query) == WithDept(WithYear(f, query), query)

----------------------------------------------------------------------------
(* Embedding Client and Vector Store Client, as search calls them *)

\* text[:8000] of get_embedding
EmbeddingInputLimit == 8000

\* self.client.embeddings.create(...).data[0].embedding: the vector is a value
\* determined by the submitted text
get_embedding(text) == <<"embedding", Truncate(text, EmbeddingInputLimit)>>

\* the namespace index.query reads: the default one when none is given
ParamNamespace(params) == Get(params, "namespace", "")

StoredIn(index, ns) == IF ns \in DOMAIN index THEN index[ns] ELSE {}

\* a metadata filter {key: value} selects the records whose metadata has that value
Satisfies(metadata, f) ==
    \A k \in DOMAIN f : k \in DOMAIN metadata /\ metadata[k] = f[k]

Matching(index, params) ==
    {d \in StoredIn(index, ParamNamespace(params)) :
        Satisfies(d.metadata, Get(params, "filter", EmptyDict))}

\* every way to list the elements of S, each once
Orderings(S) ==
    {o \in [1..Cardinality(S) -> S] :
        \A i, j \in 1..Cardinality(S) : i # j => o[i] # o[j]}

\* results.get("matches", []) of index.query(**params): at most top_k of the
\* matching records, each once, each with one of the similarities the record can
\* have (its `scores`), most similar first
Responses(index, params) ==
    LET M == Matching(index, params)
        n == Min(Cardinality(M), params["top_k"])
        S == UNION {d.scores : d \in M}
        Listed(o, sc) ==
            [i \in 1..n |-> [id |-> o[i].id, score |-> sc[i], metadata |-> o[i].metadata]]
    IN  UNION {
          {Listed(o, sc) : sc \in
              {f \in [1..n -> S] :
                  /\ \A i \in 1..n : f[i] \in o[i].scores
                  /\ \A i, j \in 1..n : i < j => f[i] >= f[j]}} :
          o \in UNION {Orderings(T) : T \in {U \in SUBSET M : Cardinality(U) = n}}}

----------------------------------------------------------------------------
(* Wide Retriever: lines 483-512 *)

FetchFactor == 5

FetchFloor == 50

\* FetchK without the floor of 50
FetchKNoFloor(top_k) == top_k * FetchFactor

\* fetch_k = max(top_k * 5, 50)
FetchK(top_k) == Max(top_k * FetchFactor, FetchFloor)

\* search_params of one partition
SearchParams(vector, k, ns, f) ==
    LET base == [key \in {"vector", "top_k", "include_metadata"} |->
                    CASE key = "vector" -> vector
                      [] key = "top_k" -> k
                      [] key = "include_metadata" -> TRUE]
        with_ns == IF ns # "" THEN Put(base, "namespace", ns) ELSE base
    IN  IF DOMAIN f # {} THEN Put(with_ns, "filter", f) ELSE with_ns

\* the dict appended to raw_results for one match
Candidate(match, ns) ==
    [id |-> match.id, score |-> match.score, namespace |-> ns,
     metadata |-> match.metadata]

Candidates(matches, ns) == [i \in 1..Len(matches) |-> Candidate(matches[i], ns)]

----------------------------------------------------------------------------
(* Lexical Re-ranker: lines 517-545 *)

KeptByReranker(c) == c \in WordChar \cup Whitespace

IsLongWord(w) == Len(w) >= 2

\* query_words
QueryWords(query) == SelectSeq(Split(MapChars(query, KeptByReranker)), IsLongWord)

bonus_keywords ==
    <<  <<"[gae]", "[seon]">>, <<"[jeok]", "[yong]">>, <<"[geom]", "[to]">>,
        <<"[gyeol]", "[gwa]">>, <<"[pyo]">>  >>

\* 0.05 per query word found, in units of 0.05
WordBonus == 1

\* 0.3 per adjacent pair found
PhraseBonus == 6

\* 0.05 per signal term found
SignalBonus == 1

\* full_text = (title * 2) + " " + text
FullText(doc) ==
    LET title == Get(doc.metadata, "title", <<>>)
        text  == Get(doc.metadata, "text", <<>>)
    IN  title \o title \o <<" ">> \o text

\* Hits with a string that is in the list twice counted once
HitsDistinct(words, full_text) ==
    Cardinality({w \in {words[i] : i \in 1..Len(words)} : Contains(full_text, w)})

\* how many positions of the list hold a string that occurs in full_text
Hits(words, full_text) ==
    Cardinality({i \in 1..Len(words) : Contains(full_text, words[i])})

Phrases(words) ==
    [i \in 1..Max(Len(words) - 1, 0) |-> words[i] \o <<" ">> \o words[i + 1]]

\* MatchScore with a phrase weighted like a single word
MatchScoreFlatPhrase(doc, query) ==
    LET words == QueryWords(query)
        ft    == FullText(doc)
    IN  WordBonus * Hits(words, ft)
          + (IF Len(words) >= 2 THEN WordBonus * Hits(Phrases(words), ft) ELSE 0)
          + SignalBonus * Hits(bonus_keywords, ft)

\* match_score of one document
MatchScore(doc, query) ==
    LET words == QueryWords(query)
        ft    == FullText(doc)
    IN  WordBonus * Hits(words, ft)
          + (IF Len(words) >= 2 THEN PhraseBonus * Hits(Phrases(words), ft) ELSE 0)
          + SignalBonus * Hits(bonus_keywords, ft)

\* Rerank with the score replaced by the boost instead of raised by it
RerankReplace(pool, query) ==
    [i \in 1..Len(pool) |-> [pool[i] EXCEPT !.score = MatchScore(pool[i], query)]]

\* doc["score"] += match_score, for every doc of the pool
Rerank(pool, query) ==
    [i \in 1..Len(pool) |->
        [pool[i] EXCEPT !.score = @ + MatchScore(pool[i], query)]]

----------------------------------------------------------------------------
(* Diversity Selector: lines 551-587 *)

\* the group key of documents without a year: the string "Unknown".  A numeric
\* year y is the key <<y>>, so that the two kinds of key can be told apart.
Unknown == <<>>

YearKey(doc) ==
    IF "year" \in DOMAIN doc.metadata THEN <<doc.metadata["year"]>> ELSE Unknown

\* docs_by_year.keys()
YearKeys(pool) == {YearKey(pool[i]) : i \in 1..Len(pool)}

\* docs_by_year[y]: the documents of the group in pool order
HasYearKey(doc, y) == YearKey(doc) = y

Group(pool, y) == LET InGroup(doc) == HasYearKey(doc, y) IN SelectSeq(pool, InGroup)

\* sorted() compares a str key with an int key: TypeError
KeysComparable(keys) == Unknown \notin keys \/ keys = {Unknown}

\* sorted(keys, reverse=True), for comparable keys
RECURSIVE SortedYears(_)
SortedYears(keys) ==
    IF keys = {} THEN <<>>
    ELSE IF keys = {Unknown} THEN <<Unknown>>
    ELSE LET top == CHOOSE y \in keys : \A z \in keys : y[1] >= z[1]
         IN  <<top>> \o SortedYears(keys \ {top})

\* list.sort(key=score, reverse=True): stable, so equal scores keep their order
RECURSIVE InsertByScore(_, _)
InsertByScore(sorted, doc) ==
    IF sorted = <<>> THEN <<doc>>
    ELSE IF Head(sorted).score >= doc.score
         THEN <<Head(sorted)>> \o InsertByScore(Tail(sorted), doc)
         ELSE <<doc>> \o sorted

RECURSIVE SortFrom(_, _, _)
SortFrom(docs, i, acc) ==
    IF i > Len(docs) THEN acc
    ELSE SortFrom(docs, i + 1, InsertByScore(acc, docs[i]))

SortByScore(docs) == SortFrom(docs, 1, <<>>)

\* the per-year quota of guaranteed documents
YearQuota == 2

\* Top2 without the sort of the year's documents
Top2Unsorted(pool, y) == Truncate(Group(pool, y), YearQuota)

\* top_2_docs of one year
Top2(pool, y) == Truncate(SortByScore(Group(pool, y)), YearQuota)

\* final_results after the loop over sorted_years
RECURSIVE TakeQuota(_, _)
TakeQuota(pool, years) ==
    IF years = <<>> THEN <<>>
    ELSE Top2(pool, Head(years)) \o TakeQuota(pool, Tail(years))

Guaranteed(pool) == TakeQuota(pool, SortedYears(YearKeys(pool)))

Ids(docs) == {docs[i].id : i \in 1..Len(docs)}

\* Fill that never stops at top_k
RECURSIVE FillNoLimit(_, _, _, _)
FillNoLimit(result, selected_ids, rest, top_k) ==
    IF rest = <<>> THEN result
    ELSE IF Head(rest).id \notin selected_ids
         THEN FillNoLimit(Append(result, Head(rest)), selected_ids \cup {Head(rest).id},
                          Tail(rest), top_k)
         ELSE FillNoLimit(result, selected_ids, Tail(rest), top_k)

\* Fill that stops one document late (> instead of >=)
RECURSIVE FillOneLate(_, _, _, _)
FillOneLate(result, selected_ids, rest, top_k) ==
    IF rest = <<>> THEN result
    ELSE IF Len(result) > top_k THEN result
    ELSE IF Head(rest).id \notin selected_ids
         THEN FillOneLate(Append(result, Head(rest)), selected_ids \cup {Head(rest).id},
                          Tail(rest), top_k)
         ELSE FillOneLate(result, selected_ids, Tail(rest), top_k)

\* the loop over the score-sorted pool that fills final_results up to top_k
RECURSIVE Fill(_, _, _, _)
Fill(result, selected_ids, rest, top_k) ==
    IF rest = <<>> THEN result
    ELSE IF Len(result) >= top_k THEN result
    ELSE IF Head(rest).id \notin selected_ids
         THEN Fill(Append(result, Head(rest)), selected_ids \cup {Head(rest).id},
                   Tail(rest), top_k)
         ELSE Fill(result, selected_ids, Tail(rest), top_k)

\* Assembled with the fill loop walking the pool in the order of arrival
AssembledInArrivalOrder(pool, top_k) ==
    LET first == Guaranteed(pool)
    IN  Fill(first, Ids(first), pool, top_k)

\* final_results before the closing sort
Assembled(pool, top_k) ==
    LET first == Guaranteed(pool)
    IN  Fill(first, Ids(first), SortByScore(pool), top_k)

\* Select without the closing sort
SelectUnsorted(pool, top_k) == Assembled(pool, top_k)

\* the list search returns
Select(pool, top_k) == SortByScore(Assembled(pool, top_k))

----------------------------------------------------------------------------
(* The documents, queries and calls of the model *)

\* largest top_k of the calls that only vary top_k
TopKRange == 100

Gijun == <<"[gi]", "[jun]">>

Seolgyecheo == <<"[seol]", "[gye]", "[cheo]">>

Dorocheo == <<"[do]", "[ro]", "[cheo]">>

\* vector similarities of the general documents, in units of 0.05
Scores == {10, 12}

Doc1 ==
    [id |-> "d1", scores |-> Scores,
     metadata |-> [year |-> 2024, dept |-> Seolgyecheo, title |-> Gijun,
                   text |-> Seolgyecheo \o <<" ">> \o Gijun \o <<" ", "[gae]", "[seon]">>]]

Doc2 ==
    [id |-> "d2", scores |-> Scores,
     metadata |-> [year |-> 2024, dept |-> Seolgyecheo, title |-> <<"[pyo]">>]]

Doc3 ==
    [id |-> "d3", scores |-> Scores,
     metadata |-> [year |-> 2024, dept |-> Dorocheo,
                   text |-> <<"[seol]", "[gye]", " ">> \o Gijun]]

Doc4 ==
    [id |-> "d4", scores |-> Scores,
     metadata |-> [year |-> 2019, dept |-> Seolgyecheo, title |-> Gijun, text |-> <<>>]]

Doc5 == [id |-> "d5", scores |-> Scores, metadata |-> EmptyDict]

\* "2024[nyeon] [seol][gye][cheo] [gi][jun]"
QueryYearDept == <<"2", "0", "2", "4", "[nyeon]", " ">> \o Seolgyecheo \o <<" ">> \o Gijun

\* "[seol][gye] [gi][jun]?"
QueryPlain == <<"[seol]", "[gye]", " ">> \o Gijun \o <<"?">>

\* "2031 2019 [gu][jo][mul][cheo][wa] [seol][gye][cheo]": two years, two departments
QueryTwoEach ==
    <<"2", "0", "3", "1", " ", "2", "0", "1", "9", " ", "[gu]", "[jo]", "[mul]",
      "[cheo]", "[wa]", " ">> \o Seolgyecheo

\* "[seol][gye][cheo][cheo] 120245": the year inside a longer number
QueryGlued == Seolgyecheo \o <<"[cheo]", " ", "1", "2", "0", "2", "4", "5">>

\* "[cheo] [gi][jun] 2040": neither pattern matches
QueryNoMatch == <<"[cheo]", " ">> \o Gijun \o <<" ", "2", "0", "4", "0">>

SmallSubsets(S) == {T \in SUBSET S : Cardinality(T) <= MaxStored}

\* indexes of two namespaces; d1 is stored in both
Indexes ==
    {[ns \in {"a", "b"} |-> IF ns = "a" THEN A ELSE B] :
        A \in SmallSubsets({Doc1, Doc2, Doc4}), B \in SmallSubsets({Doc1, Doc3, Doc5})}

\* calls that vary the pool
Calls ==
    [query : {QueryYearDept, QueryPlain},
     top_k : 1..MaxTopK,
     namespaces : {<<>>, <<"b", "a">>},
     filters : {EmptyDict},
     use_keyword_extraction : {TRUE}]

\* an index of one namespace per year, as the application's folders are
YearNamespace(y) ==
    CASE y = 2020 -> "y2020" [] y = 2021 -> "y2021" [] y = 2022 -> "y2022"
      [] y = 2023 -> "y2023" [] y = 2024 -> "y2024"

YearDoc(y, n, score) ==
    [id |-> <<y, n>>, scores |-> {score}, metadata |-> [year |-> y]]

\* the older the year, the more similar its documents
YearIndex ==
    [ns \in {YearNamespace(y) : y \in 2020..2024} |->
        CASE ns = "y2020" -> {YearDoc(2020, 1, 12), YearDoc(2020, 2, 11)}
          [] ns = "y2021" -> {YearDoc(2021, 1, 10), YearDoc(2021, 2, 9)}
          [] ns = "y2022" -> {YearDoc(2022, 1, 8), YearDoc(2022, 2, 7)}
          [] ns = "y2023" -> {YearDoc(2023, 1, 6), YearDoc(2023, 2, 5)}
          [] ns = "y2024" -> {YearDoc(2024, 1, 4), YearDoc(2024, 2, 3),
                              YearDoc(2024, 3, 2)}]

YearCalls ==
    [query : {QueryPlain},
     top_k : 1..MaxTopK,
     namespaces : {<<"y2024", "y2023", "y2022", "y2021", "y2020">>},
     filters : {EmptyDict},
     use_keyword_extraction : {TRUE}]

\* calls that vary the query and the caller's filters
FilterCalls ==
    [query : {QueryYearDept, QueryTwoEach, QueryGlued, QueryNoMatch},
     top_k : {MaxTopK},
     namespaces : {<<"b", "a">>},
     filters : {EmptyDict, [k \in {"year"} |-> 2019], [k \in {"dept"} |-> Dorocheo],
                [k \in {"year", "dept"} |-> IF k = "year" THEN 2019 ELSE Dorocheo]},
     use_keyword_extraction : BOOLEAN]

\* calls that vary top_k
TopKCalls ==
    [query : {QueryPlain},
     top_k : 1..TopKRange,
     namespaces : {<<"b", "a">>},
     filters : {EmptyDict},
     use_keyword_extraction : {TRUE}]

SmallIndex == [ns \in {"a", "b"} |-> IF ns = "a" THEN {Doc4} ELSE {Doc3}]

\* an index without any namespace
EmptyIndex == [ns \in {} |-> {}]

Daehan == <<"[dae]", "[han]">>

\* "[gi][jun] [gi][jun] [dae][han] [seol][gye]": a word twice, and a stopword
QueryRepeated ==
    Gijun \o <<" ">> \o Gijun \o <<" ">> \o Daehan \o <<" ", "[seol]", "[gye]">>

\* four documents of one year that the store finds equally similar: the words of
\* QueryPlain as a phrase; the same words the other way round; none of them but
\* every signal term; no text at all
DocPhrase ==
    [id |-> "phrase", scores |-> {10},
     metadata |-> [year |-> 2024, text |-> <<"[seol]", "[gye]", " ">> \o Gijun]]

DocWords ==
    [id |-> "words", scores |-> {10},
     metadata |-> [year |-> 2024, text |-> Gijun \o <<" ", "[seol]", "[gye]">>]]

DocSignals ==
    [id |-> "signals", scores |-> {10},
     metadata |-> [year |-> 2024, title |-> Daehan,
                   text |-> <<"[gae]", "[seon]", " ", "[jeok]", "[yong]", " ",
                              "[geom]", "[to]", " ", "[gyeol]", "[gwa]", " ", "[pyo]">>]]

DocNone == [id |-> "none", scores |-> {10}, metadata |-> [year |-> 2024]]

\* the queries of up to n tokens: a keyword, another keyword, a stopword of two
\* syllables and a word of one syllable, separated by a space, by nothing, or by a
\* question mark and a space
QueryTokens == {Gijun, <<"[seol]", "[gye]">>, Daehan, <<"[pyo]">>}

QuerySeparators == {<<" ">>, <<>>, <<"?", " ">>}

RECURSIVE TokenQueries(_)
TokenQueries(n) ==
    IF n <= 1 THEN QueryTokens
    ELSE LET shorter == TokenQueries(n - 1)
         IN  shorter \cup
                 {q \o sep \o t : q \in shorter, sep \in QuerySeparators, t \in QueryTokens}

\* calls that vary the tokens of the query
KeywordCalls ==
    [query : TokenQueries(MaxTokens),
     top_k : {MaxTopK},
     namespaces : {<<>>, <<"k">>},
     filters : {EmptyDict},
     use_keyword_extraction : {TRUE}]

\* an index of one document
KeywordIndex == [ns \in {"k"} |-> {[id |-> "k1", scores |-> {10}, metadata |-> EmptyDict]}]

RankIndex == [ns \in {"r"} |-> {DocPhrase, DocWords, DocSignals, DocNone}]

\* calls that vary the words of the query
RankCalls ==
    [query : {QueryPlain, QueryRepeated},
     top_k : 1..MaxTopK,
     namespaces : {<<"r">>},
     filters : {EmptyDict},
     use_keyword_extraction : {TRUE}]

----------------------------------------------------------------------------
(* The search, step by step *)

\* None, where a text or a list is expected: told apart from both by its element
None == <<"None">>

\* the placeholder before anything is written to it
NotShown == [kind |-> "empty", text |-> <<>>]

\* the state on entry to search(query, top_k, namespaces, filters, ...), called
\* on its own
Entry(call, index) ==
    /\ pc = "filter"
    /\ args = call
    /\ stored = index
    /\ filters = call.filters
    /\ namespaces = call.namespaces
    /\ search_query = <<>>
    /\ embedding = "not_called"
    /\ query_vector = <<>>
    /\ fetch_k = 0
    /\ ns_i = 0
    /\ calls = <<>>
    /\ handled = <<>>
    /\ raw_results = <<>>
    /\ final_results = <<>>
    /\ error = ""
    /\ main_pc = "outside"
    /\ trigger = "none"
    /\ initialized = TRUE
    /\ messages = <<>>
    /\ pending_query = None
    /\ results = None
    /\ context = FALSE
    /\ completion = "not_called"
    /\ completions = 0
    /\ response_text = <<>>
    /\ placeholder = NotShown

Init ==
    \/ \E call \in Calls, index \in Indexes : Entry(call, index)
    \/ \E call \in YearCalls : Entry(call, YearIndex)
    \/ \E call \in FilterCalls \cup TopKCalls : Entry(call, SmallIndex)
    \/ \E call \in Calls : Entry(call, EmptyIndex)
    \/ \E call \in RankCalls : Entry(call, RankIndex)

\* lines 459-475
ExtractConstraints ==
    /\ pc = "filter"
    /\ filters' = AutoFilter(filters, args.query)
    /\ pc' = "embed"
    /\ UNCHANGED <<args, stored, search_query, embedding, query_vector, fetch_k,
                   namespaces, ns_i, calls, handled, raw_results, final_results, error>>
    /\ UNCHANGED mainVars

\* line 480
SearchQuery(query, use_keyword_extraction) ==
    IF use_keyword_extraction THEN extract_search_keywords(query) ELSE query

\* lines 480-481, the Embedding Client answers
Embed ==
    /\ pc = "embed"
    /\ search_query' = SearchQuery(args.query, args.use_keyword_extraction)
    /\ embedding' = "answered"
    /\ query_vector' = get_embedding(search_query')
    /\ pc' = "namespaces"
    /\ UNCHANGED <<args, stored, filters, fetch_k, namespaces, ns_i, calls,
                   handled, raw_results, final_results, error>>
    /\ UNCHANGED mainVars

\* EmbedRaises with the exception swallowed and an empty list returned
EmbedRaisesReturnsEmpty ==
    /\ pc = "embed"
    /\ search_query' = SearchQuery(args.query, args.use_keyword_extraction)
    /\ embedding' = "raised"
    /\ pc' = "returned"
    /\ UNCHANGED <<args, stored, filters, query_vector, fetch_k, namespaces, ns_i,
                   calls, handled, raw_results, final_results, error>>
    /\ UNCHANGED mainVars

\* lines 480-481, the Embedding Client raises: no handler of search encloses the
\* call, so the exception leaves search
EmbedRaises ==
    /\ pc = "embed"
    /\ search_query' = SearchQuery(args.query, args.use_keyword_extraction)
    /\ embedding' = "raised"
    /\ error' = "EmbeddingError"
    /\ pc' = "raised"
    /\ UNCHANGED <<args, stored, filters, query_vector, fetch_k, namespaces, ns_i,
                   calls, handled, raw_results, final_results>>
    /\ UNCHANGED mainVars

\* lines 483-487 with namespaces given
NamespacesGiven ==
    /\ pc = "namespaces"
    /\ namespaces # <<>>
    /\ fetch_k' = FetchK(args.top_k)
    /\ pc' = "retrieve"
    /\ UNCHANGED <<args, stored, filters, search_query, embedding, query_vector,
                   namespaces, ns_i, calls, handled, raw_results, final_results, error>>
    /\ UNCHANGED mainVars

\* lines 483-490: describe_index_stats answers; list(...keys()) or [""], the keys
\* in the order the store lists them
DiscoverNamespaces ==
    /\ pc = "namespaces"
    /\ namespaces = <<>>
    /\ fetch_k' = FetchK(args.top_k)
    /\ \E keys \in Orderings(DOMAIN stored) :
          namespaces' = IF keys = <<>> THEN <<"">> ELSE keys
    /\ pc' = "retrieve"
    /\ UNCHANGED <<args, stored, filters, search_query, embedding, query_vector,
                   ns_i, calls, handled, raw_results, final_results, error>>
    /\ UNCHANGED mainVars

\* line 491: describe_index_stats raises
DiscoverRaises ==
    /\ pc = "namespaces"
    /\ namespaces = <<>>
    /\ fetch_k' = FetchK(args.top_k)
    /\ namespaces' = <<"">>
    /\ pc' = "retrieve"
    /\ UNCHANGED <<args, stored, filters, search_query, embedding, query_vector,
                   ns_i, calls, handled, raw_results, final_results, error>>
    /\ UNCHANGED mainVars

\* the partition the loop of line 493 handles next, and its search_params
NextNs == namespaces[ns_i + 1]

NextParams == SearchParams(query_vector, fetch_k, NextNs, filters)

InLoop == pc = "retrieve" /\ ns_i < Len(namespaces)

\* what one pass of the loop body leaves behind: `read` are the matches whose
\* dict was appended before the pass ended
Pass(outcome, read) ==
    /\ ns_i' = ns_i + 1
    /\ calls' = Append(calls, NextParams)
    /\ handled' = Append(handled, [ns |-> NextNs, outcome |-> outcome, read |-> read])
    /\ raw_results' = raw_results \o Candidates(read, NextNs)
    /\ UNCHANGED <<pc, args, stored, filters, search_query, embedding, query_vector,
                   fetch_k, namespaces, final_results, error>>
    /\ UNCHANGED mainVars

\* lines 494-511: the query answers and every match is read
QueryPartition ==
    /\ InLoop
    /\ \E matches \in Responses(stored, NextParams) : Pass("ok", matches)

\* line 503 raises; line 512 swallows it
QueryRaises ==
    /\ InLoop
    /\ Pass("query_raised", <<>>)

\* the matches read before the error: a response without its last match or more
ReadBeforeError(index, params) ==
    UNION {{SubSeq(matches, 1, n) : n \in 0..(Len(matches) - 1)} :
              matches \in Responses(index, params)}

\* reading a match raises after some were appended (lines 505-511); line 512
\* swallows it
ReadRaises ==
    /\ InLoop
    /\ \E read \in ReadBeforeError(stored, NextParams) : Pass("read_raised", read)

\* lines 517-545, once the loop over the partitions has ended
LexicalRerank ==
    /\ pc = "retrieve"
    /\ ns_i = Len(namespaces)
    /\ raw_results' = Rerank(raw_results, args.query)
    /\ pc' = "select"
    /\ UNCHANGED <<args, stored, filters, search_query, embedding, query_vector,
                   fetch_k, namespaces, ns_i, calls, handled, final_results, error>>
    /\ UNCHANGED mainVars

\* lines 551-587
DiversitySelect ==
    /\ pc = "select"
    /\ IF KeysComparable(YearKeys(raw_results))
       THEN /\ final_results' = Select(raw_results, args.top_k)
            /\ raw_results' = SortByScore(raw_results)
            /\ pc' = "returned"
            /\ UNCHANGED error
       ELSE /\ error' = "TypeError"
            /\ pc' = "raised"
            /\ UNCHANGED <<raw_results, final_results>>
    /\ UNCHANGED <<args, stored, filters, search_query, embedding, query_vector,
                   fetch_k, namespaces, ns_i, calls, handled>>
    /\ UNCHANGED mainVars

Next ==
    \/ ExtractConstraints
    \/ Embed
    \/ EmbedRaises
    \/ NamespacesGiven
    \/ DiscoverNamespaces
    \/ DiscoverRaises
    \/ QueryPartition
    \/ QueryRaises
    \/ ReadRaises
    \/ LexicalRerank
    \/ DiversitySelect

Spec == Init /\ [][Next]_vars

\* the searches whose queries vary the tokens the Keyword Extractor is given
KeywordInit == \E call \in KeywordCalls : Entry(call, KeywordIndex)

KeywordSpec == KeywordInit /\ [][Next]_vars

----------------------------------------------------------------------------
(* main: the script runs of the chat page, lines 770-1070 *)

\* largest number of questions asked before the conversation is reset
MaxTurns == 2

\* largest number of chunks with content that a completion stream delivers
MaxChunks == 1

\* the value the slider of top_k starts with
SliderDefault == 10

\* the answer of a turn without results (line 1033), as one piece of text
NoResultsText == <<"[no results]">>

\* the content of a chunk of the stream, and the cursor shown behind the text
ChunkText == <<"t">>

Cursor == <<"[cursor]">>

\* placeholder.error(...) of line 653
ErrorShown == [kind |-> "error", text |-> <<"[LLM error]">>]

DocNoYear == [id |-> "noyear", scores |-> {10}, metadata |-> [text |-> Gijun]]

\* the index behind the page: two documents with a year and one without
MainIndex ==
    [ns \in {"a", "b"} |-> IF ns = "a" THEN {DocPhrase, DocWords} ELSE {DocNoYear}]

\* what is typed into the chat input, and the example question of a button
ChatQueries == {QueryPlain}

ExampleQueries == {QueryYearDept}

\* lines 1013-1028: the call of search with the settings of the sidebar (every
\* namespace selected or none, no filter, keyword extraction on)
MainCalls(query) ==
    [query : {query},
     top_k : {SliderDefault},
     namespaces : {<<>>, <<"a", "b">>},
     filters : {EmptyDict},
     use_keyword_extraction : {TRUE}]

\* search is entered with the arguments of call
CallSearch(call) ==
    /\ pc' = "filter"
    /\ args' = call
    /\ filters' = call.filters
    /\ namespaces' = call.namespaces
    /\ search_query' = <<>>
    /\ embedding' = "not_called"
    /\ query_vector' = <<>>
    /\ fetch_k' = 0
    /\ ns_i' = 0
    /\ calls' = <<>>
    /\ handled' = <<>>
    /\ raw_results' = <<>>
    /\ final_results' = <<>>
    /\ error' = ""
    /\ UNCHANGED stored

\* the script run ends: its locals and those of search are gone
EndRun ==
    /\ main_pc' = "idle"
    /\ pc' = "none"
    /\ args' = EmptyDict
    /\ filters' = EmptyDict
    /\ namespaces' = <<>>
    /\ search_query' = <<>>
    /\ embedding' = "not_called"
    /\ query_vector' = <<>>
    /\ fetch_k' = 0
    /\ ns_i' = 0
    /\ calls' = <<>>
    /\ handled' = <<>>
    /\ raw_results' = <<>>
    /\ final_results' = <<>>
    /\ error' = ""
    /\ UNCHANGED stored

\* the page before its first script run, with the session state of lines 775-782
MainInit ==
    /\ main_pc = "idle"
    /\ trigger = "none"
    /\ initialized = FALSE
    /\ messages = <<>>
    /\ pending_query = None
    /\ results = None
    /\ context = FALSE
    /\ completion = "not_called"
    /\ completions = 0
    /\ response_text = <<>>
    /\ placeholder = NotShown
    /\ stored = MainIndex
    /\ pc = "none"
    /\ args = EmptyDict
    /\ filters = EmptyDict
    /\ namespaces = <<>>
    /\ search_query = <<>>
    /\ embedding = "not_called"
    /\ query_vector = <<>>
    /\ fetch_k = 0
    /\ ns_i = 0
    /\ calls = <<>>
    /\ handled = <<>>
    /\ raw_results = <<>>
    /\ final_results = <<>>
    /\ error = ""

UserMessage(query) == [role |-> "user", content |-> query]

AssistantMessage(response, used_sources) ==
    [role |-> "assistant", content |-> response, sources |-> used_sources]

\* the questions recorded so far
Turns == Cardinality({i \in 1..Len(messages) : messages[i].role = "user"})

\* one script run from its start to the call of search (lines 775-1022), or to its
\* end when it does not get there.  by is what started the run: a click on
\* the reset button ("reset") or on an example button ("example", with its
\* question q), a question q typed into the chat input ("chat"), or anything else
\* ("none": st.rerun(), another widget).  connects tells whether init_clients
\* succeeds when line 789 calls it.
Run(by, q, connects) ==
    /\ main_pc = "idle"
    /\ LET connected == initialized \/ connects
           pending   == IF by = "example" THEN q ELSE pending_query
           query     == IF pending # None THEN pending
                        ELSE IF by = "chat" THEN q ELSE None
       IN  /\ trigger' = by
           /\ initialized' = connected
           /\ results' = None
           /\ context' = FALSE
           /\ completion' = "not_called"
           /\ completions' = 0
           /\ response_text' = <<>>
           /\ placeholder' = NotShown
           /\ IF by = "reset"
              THEN \* lines 897-900
                   /\ messages' = <<>>
                   /\ pending_query' = None
                   /\ UNCHANGED <<main_pc, searchVars>>
              ELSE IF ~connected
              THEN \* lines 964-966: st.stop()
                   /\ pending_query' = pending
                   /\ UNCHANGED <<main_pc, messages, searchVars>>
              ELSE IF query = None
              THEN /\ pending_query' = None
                   /\ UNCHANGED <<main_pc, messages, searchVars>>
              ELSE \* lines 991-1022
                   /\ pending_query' = None
                   /\ messages' = Append(messages, UserMessage(query))
                   /\ main_pc' = "search"
                   /\ \E call \in MainCalls(query) : CallSearch(call)

\* the reset button is on the page once the clients are connected (line 822)
ClickReset ==
    /\ initialized
    /\ Run("reset", None, FALSE)

ClickExample ==
    /\ Turns < MaxTurns
    /\ \E q \in ExampleQueries, connects \in BOOLEAN : Run("example", q, connects)

\* the chat input is on the page once the clients are connected (lines 964-996)
SubmitChat ==
    /\ initialized
    /\ Turns < MaxTurns
    /\ \E q \in ChatQueries : Run("chat", q, FALSE)

\* st.rerun() or a widget that changes no session state (the connect buttons of
\* lines 806-820 do what line 789 does)
Rerun == \E connects \in BOOLEAN : Run("none", None, connects)

\* search raised: no handler of main encloses the call of line 1022, so the
\* exception ends the script run after the question was recorded
SearchFails ==
    /\ main_pc = "search"
    /\ pc = "raised"
    /\ EndRun
    /\ UNCHANGED <<trigger, initialized, messages, pending_query, results, context,
                   completion, completions, response_text, placeholder>>

\* lines 1060-1070: the answer is recorded and the script run ends in st.rerun()
Record(response, used_sources) ==
    /\ messages' = Append(messages, AssistantMessage(response, used_sources))
    /\ EndRun
    /\ UNCHANGED <<trigger, initialized, pending_query>>

\* lines 1031-1034
NoResults ==
    /\ main_pc = "search"
    /\ pc = "returned"
    /\ final_results = <<>>
    /\ results' = final_results
    /\ Record(NoResultsText, <<>>)
    /\ UNCHANGED <<context, completion, completions, response_text, placeholder>>

\* lines 1035-1047 and 626-643: the context is built and the completion call
\* answers with a stream
OpenStream ==
    /\ main_pc = "search"
    /\ pc = "returned"
    /\ final_results # <<>>
    /\ results' = final_results
    /\ context' = TRUE
    /\ completion' = "streaming"
    /\ completions' = completions + 1
    /\ response_text' = <<>>
    /\ main_pc' = "stream"
    /\ UNCHANGED <<searchVars, trigger, initialized, messages, pending_query,
                   placeholder>>

\* lines 630-641 raise; lines 652-654 show the error and return ""
CreateFails ==
    /\ main_pc = "search"
    /\ pc = "returned"
    /\ final_results # <<>>
    /\ results' = final_results
    /\ context' = TRUE
    /\ completion' = "raised"
    /\ completions' = completions + 1
    /\ placeholder' = ErrorShown
    /\ Record(<<>>, final_results)
    /\ UNCHANGED response_text

\* lines 644-647: the stream delivers a chunk, with content or without
StreamChunk ==
    /\ main_pc = "stream"
    /\ \/ /\ Len(response_text) < MaxChunks
          /\ response_text' = response_text \o ChunkText
          /\ placeholder' = [kind |-> "markdown", text |-> response_text' \o Cursor]
       \/ UNCHANGED <<response_text, placeholder>>
    /\ UNCHANGED <<searchVars, main_pc, trigger, initialized, messages, pending_query,
                   results, context, completion, completions>>

\* StreamFails with the text received so far returned instead of ""
StreamFailsKeepsText ==
    /\ main_pc = "stream"
    /\ completion' = "raised"
    /\ placeholder' = ErrorShown
    /\ Record(response_text, results)
    /\ UNCHANGED <<results, context, completions, response_text>>

\* the stream raises while it is read (line 644); lines 652-654
StreamFails ==
    /\ main_pc = "stream"
    /\ completion' = "raised"
    /\ placeholder' = ErrorShown
    /\ Record(<<>>, results)
    /\ UNCHANGED <<results, context, completions, response_text>>

\* lines 649-650: the stream ends
StreamEnds ==
    /\ main_pc = "stream"
    /\ completion' = "ended"
    /\ placeholder' = [kind |-> "markdown", text |-> response_text]
    /\ Record(response_text, results)
    /\ UNCHANGED <<results, context, completions, response_text>>

MainNext ==
    \/ ClickReset
    \/ ClickExample
    \/ SubmitChat
    \/ Rerun
    \/ Next
    \/ SearchFails
    \/ NoResults
    \/ OpenStream
    \/ CreateFails
    \/ StreamChunk
    \/ StreamFails
    \/ StreamEnds

MainSpec == MainInit /\ [][MainNext]_vars

----------------------------------------------------------------------------
(* Properties *)

Returned == pc = "returned"

\* how many documents of docs have year key y and a score of at least s
CountAtLeast(docs, y, s) ==
    Cardinality({i \in 1..Len(docs) : YearKey(docs[i]) = y /\ docs[i].score >= s})

GroupSize(docs, y) == Cardinality({i \in 1..Len(docs) : YearKey(docs[i]) = y})

TwoOr(n) == IF n < 2 THEN n ELSE 2

\* guaranteed_count: over the years of the pool, min(2, size of the year's group)
RECURSIVE QuotaSum(_, _)
QuotaSum(docs, keys) ==
    IF keys = {} THEN 0
    ELSE LET y == CHOOSE k \in keys : TRUE
         IN  TwoOr(GroupSize(docs, y)) + QuotaSum(docs, keys \ {y})

GuaranteedCount == QuotaSum(raw_results, YearKeys(raw_results))

\* the candidates the loop over the partitions appended, with the similarity the
\* store gave them
RECURSIVE ReadFrom(_)
ReadFrom(passes) ==
    IF passes = <<>> THEN <<>>
    ELSE Candidates(Head(passes).read, Head(passes).ns) \o ReadFrom(Tail(passes))

\* C1: the list search returns holds no id more than once.
NoDuplicateIds ==
    Returned =>
        \A i, j \in 1..Len(final_results) :
            i # j => final_results[i].id # final_results[j].id

\* C2, as claimed: the list search returns has at most top_k entries.
LengthAtMostTopK == Returned => Len(final_results) <= args.top_k

\* C2, amended: the list search returns has at most max(top_k, guaranteed_count)
\* entries, guaranteed_count being the number the per-year top-2 step takes.
LengthAtMostTopKOrQuota ==
    Returned =>
        Len(final_results) <= (IF args.top_k >= GuaranteedCount THEN args.top_k
                               ELSE GuaranteedCount)

\* a search has returned more than top_k documents
ReturnedMoreThanTopK == Returned /\ Len(final_results) > args.top_k

\* C3: the list search returns is ordered by boosted score, highest first.
ResultSortedByScore ==
    Returned =>
        \A i \in 1..(Len(final_results) - 1) :
            final_results[i].score >= final_results[i + 1].score

\* a returned list in which a document of an older year precedes a document of a
\* newer year that scores lower: not the order the per-year step produces
OlderYearFirst ==
    /\ Returned
    /\ \E i, j \in 1..Len(final_results) :
          /\ i < j
          /\ YearKey(final_results[i]) # Unknown
          /\ YearKey(final_results[j]) # Unknown
          /\ YearKey(final_results[i])[1] < YearKey(final_results[j])[1]
          /\ final_results[i].score > final_results[j].score

FiveYearsOfTwo ==
    /\ Cardinality(YearKeys(raw_results)) = 5
    /\ \A y \in YearKeys(raw_results) : GroupSize(raw_results, y) >= 2
    /\ args.top_k = 3

\* C4: every year of the pool is represented in the returned list by its
\* min(2, group size) highest-scored documents, whatever top_k is: for every score
\* s, the list holds as many of the year's documents scoring s or more as the pool
\* does, up to 2; every returned document is a document of the pool; and a pool of
\* 5 years with 2 or more documents each gives, for top_k = 3, 10 documents.
EveryYearRepresented ==
    Returned =>
        /\ \A y \in YearKeys(raw_results) :
              \A p \in 1..Len(raw_results) :
                  CountAtLeast(final_results, y, raw_results[p].score)
                      >= TwoOr(CountAtLeast(raw_results, y, raw_results[p].score))
        /\ \A i \in 1..Len(final_results) :
              \E p \in 1..Len(raw_results) : final_results[i] = raw_results[p]
        /\ FiveYearsOfTwo => Len(final_results) = 10

\* a search over 5 years of 2 or more documents each with top_k = 3 has returned
FiveYearsReturned ==
    /\ Returned
    /\ FiveYearsOfTwo
    /\ Len(raw_results) > 10
    /\ \A y \in YearKeys(raw_results) : CountAtLeast(final_results, y, 0) >= 1

\* C5, as claimed: when the number of years times 2 exceeds top_k, the fill step
\* appends nothing and the returned list has max(top_k, guaranteed_count) entries.
NoFillWhenYearsExceed ==
    Returned /\ 2 * Cardinality(YearKeys(raw_results)) > args.top_k =>
        /\ Len(final_results) = GuaranteedCount
        /\ Len(final_results) = (IF args.top_k >= GuaranteedCount THEN args.top_k
                                 ELSE GuaranteedCount)

\* C5, amended: when guaranteed_count is at least top_k, the fill step appends
\* nothing and the returned list has guaranteed_count entries, which is
\* max(top_k, guaranteed_count).
NoFillWhenQuotaReachesTopK ==
    Returned /\ GuaranteedCount >= args.top_k =>
        Len(final_results) = GuaranteedCount

\* a search has returned with the quota at top_k and a document left over
QuotaReachedWithLeftover ==
    /\ Returned
    /\ GuaranteedCount = args.top_k
    /\ \E p \in 1..Len(raw_results) : raw_results[p].id \notin Ids(final_results)

\* the first match of the year pattern in the query gives year y
FirstYearIs(query, y) ==
    \E i \in 1..Len(query) :
        /\ YearMatchAt(query, i)
        /\ \A j \in 1..(i - 1) : ~YearMatchAt(query, j)
        /\ y = YearValue(query, i)

\* the first match of the department pattern in the query is d
FirstDeptIs(query, d) ==
    \E i \in 1..Len(query) :
        /\ DeptEnds(query, i) # {}
        /\ \A j \in 1..(i - 1) : DeptEnds(query, j) = {}
        /\ \E e \in DeptEnds(query, i) :
              /\ \A l \in DeptEnds(query, i) : l <= e
              /\ d = SubSeq(query, i, e)

\* C6: the filter passed to every partition query keeps each key the caller gave
\* with the caller's value, whatever the query text holds; a key the caller did
\* not give is there only with the first match of its pattern in the query.
CallerFiltersKept ==
    LET no_year == YearStarts(args.query) = {}
        no_dept == DeptStarts(args.query) = {}
    IN
    \A c \in 1..Len(calls) :
        LET f == Get(calls[c], "filter", EmptyDict)
        IN  /\ \A k \in DOMAIN args.filters : k \in DOMAIN f /\ f[k] = args.filters[k]
            /\ "year" \in DOMAIN f \ DOMAIN args.filters =>
                  FirstYearIs(args.query, f["year"])
            /\ "dept" \in DOMAIN f \ DOMAIN args.filters =>
                  FirstDeptIs(args.query, f["dept"])
            /\ "year" \notin DOMAIN f => no_year
            /\ "dept" \notin DOMAIN f => no_dept
            /\ args.query = QueryTwoEach /\ args.filters = EmptyDict =>
                  /\ f["year"] = 2031
                  /\ f["dept"] = <<"[gu]", "[jo]", "[mul]", "[cheo]">>

\* a partition was queried with the caller's year and department although the
\* query names another year and another department
CallerFilterBeatQuery ==
    /\ Len(calls) >= 1
    /\ DOMAIN args.filters = {"year", "dept"}
    /\ FirstYearIs(args.query, 2031)
    /\ DeptStarts(args.query) # {}
    /\ calls[1]["filter"]["year"] = 2019
    /\ calls[1]["filter"]["dept"] = Dorocheo

SameFilter(c, d) ==
    /\ "filter" \in DOMAIN c <=> "filter" \in DOMAIN d
    /\ "filter" \in DOMAIN c => c["filter"] = d["filter"]

\* C7: every partition query asks for max(top_k * 5, 50) results (50 for top_k = 10,
\* 100 for top_k = 20), and all queries of a search carry the same vector, the
\* same count and the same filter.
FetchCountAndSameQuery ==
    \A c \in 1..Len(calls) :
        /\ calls[c]["top_k"] = (IF args.top_k * 5 >= 50 THEN args.top_k * 5 ELSE 50)
        /\ args.top_k = 10 => calls[c]["top_k"] = 50
        /\ args.top_k = 20 => calls[c]["top_k"] = 100
        /\ \A d \in 1..Len(calls) :
              /\ calls[c]["vector"] = calls[d]["vector"]
              /\ calls[c]["top_k"] = calls[d]["top_k"]
              /\ SameFilter(calls[c], calls[d])

\* two partitions were queried by a search with top_k = 20
TwoQueriesOfTopK20 ==
    /\ Len(calls) = 2
    /\ args.top_k = 20
    /\ calls[2]["top_k"] = 100

\* C8: a partition whose handling failed (the query raised, or reading its matches
\* raised) does not abort the search (the loop goes on to the next partition) and
\* contributes no candidate to the pool, and every candidate of the other
\* partitions is in the pool.
FailedPartitionContributesNothing ==
    /\ \A h \in 1..Len(handled) :
          handled[h].outcome # "ok" =>
              /\ ns_i >= h
              /\ pc = "raised" => error = "TypeError"
              /\ \A p \in 1..Len(raw_results) : raw_results[p].namespace # handled[h].ns
    /\ pc = "retrieve" =>
          \A h \in 1..Len(handled) :
              handled[h].outcome = "ok" =>
                  \A m \in 1..Len(handled[h].read) :
                      \E p \in 1..Len(raw_results) :
                          raw_results[p] = Candidate(handled[h].read[m], handled[h].ns)

\* C9: when the Embedding Client raises, search ends with that error instead of
\* returning a list, and no partition is queried.
EmbeddingFailureIsFatal ==
    /\ embedding = "raised" =>
          /\ pc = "raised"
          /\ error = "EmbeddingError"
          /\ calls = <<>>
          /\ handled = <<>>
    /\ Returned => embedding = "answered"

\* the Embedding Client has raised
EmbeddingRaised == embedding = "raised" /\ pc = "raised" /\ search_query # <<>>

\* C10: after the re-ranking step the pool holds the documents it held before, in
\* the same number, and none has a score below its vector similarity.
RerankKeepsPoolAndNeverLowers ==
    pc = "select" =>
        LET before == ReadFrom(handled)
        IN  /\ Len(raw_results) = Len(before)
            /\ \A p \in 1..Len(before) :
                  /\ raw_results[p].id = before[p].id
                  /\ raw_results[p].namespace = before[p].namespace
                  /\ raw_results[p].metadata = before[p].metadata
                  /\ raw_results[p].score >= before[p].score

\* a pool was re-ranked in which one document was boosted and another was not
BoostedAndUnboosted ==
    /\ pc = "select"
    /\ \E p, q \in 1..Len(raw_results) :
          /\ raw_results[p].score > ReadFrom(handled)[p].score
          /\ raw_results[q].score = ReadFrom(handled)[q].score

\* the comparison text of a pooled document: its title twice, a space, its body
ComparisonText(doc) ==
    Get(doc.metadata, "title", <<>>) \o Get(doc.metadata, "title", <<>>)
        \o <<" ">> \o Get(doc.metadata, "text", <<>>)

\* the comparison text of doc holds every query word and an adjacent pair of them
HasAllWordsAndAPhrase(doc, words) ==
    /\ \A i \in 1..Len(words) : Contains(ComparisonText(doc), words[i])
    /\ \E i \in 1..(Len(words) - 1) :
          Contains(ComparisonText(doc), words[i] \o <<" ">> \o words[i + 1])

HasNoWord(doc, words) ==
    \A i \in 1..Len(words) : ~Contains(ComparisonText(doc), words[i])

\* C11: of two pooled documents that the store found equally similar, the one whose
\* comparison text holds every query word and an adjacent pair of query words
\* leaves the re-ranking step with a strictly higher score than the one whose
\* comparison text holds no query word, whatever signal terms either text holds.
FullOverlapBeatsNoOverlap ==
    pc = "select" =>
        LET before == ReadFrom(handled)
            words  == QueryWords(args.query)
        IN  \A p, q \in 1..Len(raw_results) :
                /\ before[p].score = before[q].score
                /\ HasAllWordsAndAPhrase(raw_results[p], words)
                /\ HasNoWord(raw_results[q], words)
                => raw_results[p].score > raw_results[q].score

\* a pool was re-ranked that holds a document with every query word and a phrase
\* and no signal term, and an equally similar one with no query word and every
\* signal term
PhraseAgainstSignals ==
    /\ pc = "select"
    /\ \E p, q \in 1..Len(raw_results) :
          /\ ReadFrom(handled)[p].score = ReadFrom(handled)[q].score
          /\ HasAllWordsAndAPhrase(raw_results[p], QueryWords(args.query))
          /\ HasNoWord(raw_results[q], QueryWords(args.query))
          /\ \A k \in 1..Len(bonus_keywords) :
                /\ ~Contains(ComparisonText(raw_results[p]), bonus_keywords[k])
                /\ Contains(ComparisonText(raw_results[q]), bonus_keywords[k])

\* the elements of a list
Range(seq) == {seq[i] : i \in 1..Len(seq)}

\* the whitespace-separated tokens of the query once every character outside the
\* whitelist is a space
FilteredTokens(query) == Split(MapChars(query, KeptByExtractor))

\* a token survives: it is no stopword and is longer than one character
Survives(t) == t \notin stopwords /\ Len(t) >= 2

\* the positions of the surviving tokens
Survivors(tokens) == {i \in 1..Len(tokens) : Survives(tokens[i])}

\* out is the tokens at the positions S, in their order, with one space between
\* two of them: position by position, from the first
RECURSIVE IsJoinOf(_, _, _)
IsJoinOf(out, tokens, S) ==
    IF S = {} THEN out = <<>>
    ELSE LET i == CHOOSE k \in S : \A l \in S : k <= l
             t == tokens[i]
         IN  /\ Len(out) >= Len(t)
             /\ SubSeq(out, 1, Len(t)) = t
             /\ IF S = {i} THEN Len(out) = Len(t)
                ELSE /\ Len(out) > Len(t)
                     /\ out[Len(t) + 1] = " "
                     /\ IsJoinOf(SubSeq(out, Len(t) + 2, Len(out)), tokens, S \ {i})

\* C12: the search string extract_search_keywords gives is the query itself when
\* fewer than 2 tokens survive; otherwise it is the surviving tokens in their order,
\* one space between two of them.  The surviving tokens are the tokens of the query
\* filtered to the whitelisted characters that are no stopword and longer than one
\* character.
KeywordsAreSurvivingTokens ==
    embedding # "not_called" /\ args.use_keyword_extraction =>
        LET tokens == FilteredTokens(args.query)
            S      == Survivors(tokens)
        IN  IF Cardinality(S) < 2
            THEN search_query = args.query
            ELSE /\ IsJoinOf(search_query, tokens, S)
                 /\ \A t \in Range(Split(search_query)) :
                       t \notin stopwords /\ \E i \in S : tokens[i] = t

\* the extractor gave a search string of two tokens for a query of three
TokenDropped ==
    /\ embedding = "answered"
    /\ args.use_keyword_extraction
    /\ Len(FilteredTokens(args.query)) = 3
    /\ Len(Split(search_query)) = 2
    /\ search_query # args.query

\* the passes of the loop over the partitions, had they come in the order o
Reordered(passes, o) == [i \in 1..Len(passes) |-> passes[o[i]]]

\* the list search returns for the pool the passes give in the order o
ResultInOrder(o) ==
    Select(Rerank(ReadFrom(Reordered(handled, o)), args.query), args.top_k)

\* C13: the list search returns is the list it would have returned had the same
\* partitions, with the same matches, been handled in any other order.
ArrivalOrderIrrelevant ==
    Returned =>
        \A o \in Orderings(1..Len(handled)) : ResultInOrder(o) = final_results

\* the loop over the partitions has handled every partition, at least one, and
\* each returned no match or failed
EveryPartitionEmptyOrFailed ==
    /\ pc \in {"returned", "raised"}
    /\ Len(handled) >= 1
    /\ Len(handled) = Len(namespaces)
    /\ \A h \in 1..Len(handled) :
          handled[h].outcome # "ok" \/ handled[h].read = <<>>

LastMessage == messages[Len(messages)]

\* C14: when every partition returns no match or fails, search returns an empty
\* list and does not raise; and a script run of main to which search returned an
\* empty list ends with the assistant's message recorded with an empty source
\* list, without a call of build_context or of the completion.
NoResultsIsNoError ==
    /\ EveryPartitionEmptyOrFailed => pc = "returned" /\ final_results = <<>>
    /\ main_pc = "idle" /\ results = <<>> =>
          /\ messages # <<>>
          /\ LastMessage.role = "assistant"
          /\ LastMessage.sources = <<>>
          /\ ~context
          /\ completions = 0

\* C15: when the completion fails, before the first chunk or after chunks were
\* shown, the placeholder shows the error, the completion was called once and not
\* again, and the script run ends with the assistant's message recorded with empty
\* content.
GenerationFailureRecorded ==
    /\ completions <= 1
    /\ completion = "raised" =>
          /\ main_pc = "idle"
          /\ placeholder = ErrorShown
          /\ completions = 1
          /\ messages # <<>>
          /\ LastMessage.role = "assistant"
          /\ LastMessage.content = <<>>
          /\ Len(messages) >= 2
          /\ messages[Len(messages) - 1].role = "user"

\* the stream failed after a chunk was shown
FailedAfterChunk ==
    /\ completion = "raised"
    /\ response_text # <<>>
    /\ LastMessage.role = "assistant"

\* C16: the Diversity Selector completes for every pool, also for one that holds
\* documents with a numeric year and documents without a year: it raises nothing,
\* and the documents without a year are represented in the returned list by their
\* min(2, group size) highest-scored members like the documents of a year.
SelectorCompletesWithUnknown ==
    /\ error # "TypeError"
    /\ Returned =>
          \A p \in 1..Len(raw_results) :
              CountAtLeast(final_results, Unknown, raw_results[p].score)
                  >= TwoOr(CountAtLeast(raw_results, Unknown, raw_results[p].score))

\* how many entries of the list, each entry counted, occur in the text
RECURSIVE CountFound(_, _)
CountFound(list, text) ==
    IF list = <<>> THEN 0
    ELSE (IF Contains(text, Head(list)) THEN 1 ELSE 0) + CountFound(Tail(list), text)

\* how many adjacent pairs of the list, joined by one space, occur in the text
RECURSIVE CountPairs(_, _)
CountPairs(list, text) ==
    IF Len(list) < 2 THEN 0
    ELSE (IF Contains(text, list[1] \o <<" ">> \o list[2]) THEN 1 ELSE 0)
             + CountPairs(Tail(list), text)

\* the boost as the words of a text give it, in units of 0.05: 0.05 per word of the
\* list found, 0.3 per adjacent pair found, 0.05 per signal term found
BoostFor(doc, text) ==
    LET words    == QueryWords(text)
        doc_text == ComparisonText(doc)
    IN  CountFound(words, doc_text)
            + 6 * CountPairs(words, doc_text)
            + CountFound(bonus_keywords, doc_text)

\* C17: the re-ranking step raises the score of every pooled document by 0.05 for
\* each position of the word list whose word occurs in the comparison text (a word
\* that is in the list twice counts twice), 0.3 for each adjacent pair of the list
\* that occurs in it joined by one space, and 0.05 for each of the five signal terms
\* that occurs in it; the word list is that of the original query, not of the
\* search string.
BoostIsWordsPairsSignals ==
    pc = "select" =>
        LET before == ReadFrom(handled)
        IN  \A p \in 1..Len(raw_results) :
                raw_results[p].score - before[p].score
                    = BoostFor(raw_results[p], args.query)

\* a document was boosted for a query that holds a word twice, both found, and
\* whose search string would have given another boost
RepeatedWordBoosted ==
    /\ pc = "select"
    /\ \E p \in 1..Len(raw_results) :
          /\ BoostFor(raw_results[p], args.query) # BoostFor(raw_results[p], search_query)
          /\ \E i, j \in 1..Len(QueryWords(args.query)) :
                /\ i # j
                /\ QueryWords(args.query)[i] = QueryWords(args.query)[j]
                /\ Contains(ComparisonText(raw_results[p]), QueryWords(args.query)[i])

\* the pooled documents whose id is not in the returned list
AbsentFromResult == {p \in 1..Len(raw_results) : raw_results[p].id \notin Ids(final_results)}

\* the returned document at position i came from the fill step: the per-year step
\* took the two best of its year, which stand before it in the returned list
AddedByFill(i) ==
    Cardinality({j \in 1..(i - 1) :
                    YearKey(final_results[j]) = YearKey(final_results[i])}) >= 2

\* C18: when a pooled document's id is missing from the returned list, the list
\* has at least top_k entries, and every document the fill step added scores at
\* least as high as every pooled document whose id is missing.
FillTakesBestRemaining ==
    Returned =>
        /\ AbsentFromResult # {} => Len(final_results) >= args.top_k
        /\ \A i \in 1..Len(final_results) :
              AddedByFill(i) =>
                  \A p \in AbsentFromResult :
                      final_results[i].score >= raw_results[p].score

\* the fill step added a document and left a lower-scored one out
FilledAndLeftOut ==
    /\ Returned
    /\ \E i \in 1..Len(final_results) :
          /\ AddedByFill(i)
          /\ \E p \in AbsentFromResult : final_results[i].score > raw_results[p].score

\* C19: the recorded history alternates user, assistant, user, assistant from a
\* user message on; between two script runs every user message has its assistant
\* message; and the script run of a click on the reset button leaves the history
\* empty and no pending query.
HistoryAlternates ==
    /\ \A i \in 1..Len(messages) :
          messages[i].role = (IF i % 2 = 1 THEN "user" ELSE "assistant")
    /\ main_pc = "idle" => Len(messages) % 2 = 0
    /\ main_pc = "idle" /\ trigger = "reset" =>
          messages = <<>> /\ pending_query = None

====
